---- MODULE Spec2Model ----
\* Model of the 3scale Istio adapter's authorization handler
\* (pkg/threescale/threescale.go): Threescale.HandleAuthorization and the
\* functions it calls (parseConfigParams, extractProxyConf, isAuthorized,
\* generateMetrics, apiRespConverter, rpcStatusErrorHandler).
\*
\* Strings that the code formats or matches (paths, patterns, messages) are
\* sequences of fragments, so that concatenation is \o and "contains" is a
\* sub-sequence test; the empty string is <<>>.  Identifiers the code only
\* compares with "" are TLA+ strings.
EXTENDS Integers, Sequences, FiniteSets, TLC

\* ---------------------------------------------------------------- bounds
MaxRules == 2       \* longest rule list drawn for generateMetrics
MaxDelta == 2       \* largest rule delta drawn
MaxRequests == 2    \* requests handled one after the other by the server

\* ------------------------------------------------------------- constants
pathErr == <<"missing request path">>
unauthenticatedErr == <<"no auth credentials provided or provided in invalid location">>
openIDTypeIdentifier == "oauth"
AppIDAttributeKey == "app_id"
AppKeyAttributeKey == "app_key"
OIDCAttributeKey == "client_id"

\* ----------------------------------------------------------- rpc status
\* istio mixer/pkg/status constructors, as used by the handler.
StatusOK == [Code |-> "OK", Message |-> <<>>]
WithInternal(msg) == [Code |-> "INTERNAL", Message |-> msg]
WithInvalidArgument(msg) == [Code |-> "INVALID_ARGUMENT", Message |-> msg]
WithUnavailable(msg) == [Code |-> "UNAVAILABLE", Message |-> msg]
WithUnknown(msg) == [Code |-> "UNKNOWN", Message |-> msg]
WithPermissionDenied(msg) == [Code |-> "PERMISSION_DENIED", Message |-> msg]

\* Go error values: nil, or an error with its Error() text.
NilErr == [nil |-> TRUE, text |-> <<>>]
NewErr(t) == [nil |-> FALSE, text |-> t]

\* The status constructor passed to rpcStatusErrorHandler, applied.
ApplyStatusFn(fn, msg) ==
  CASE fn = "WithInternal" -> WithInternal(msg)
    [] fn = "WithInvalidArgument" -> WithInvalidArgument(msg)
    [] fn = "WithUnavailable" -> WithUnavailable(msg)
    [] fn = "WithUnknown" -> WithUnknown(msg)

\* rpcStatusErrorHandler(userFacingErrMsg, fn, err): the status fn(err.Error())
\* and the error, after wrapping err under a non-empty user facing message
\* ("%s %s" of the message and "- "+err.Error(), the latter empty for nil).
rpcStatusErrorHandler(userFacingErrMsg, fn, e) ==
  LET errMsg == IF ~e.nil THEN <<"- ">> \o e.text ELSE <<>>
      wrapped == IF userFacingErrMsg # ""
                 THEN NewErr(<<userFacingErrMsg, " ">> \o errMsg)
                 ELSE e
  IN [status |-> ApplyStatusFn(fn, wrapped.text), err |-> wrapped]

\* ------------------------------------------------------- mapping matcher
\* regexp.MatchString(pattern, s) on the fragment of the syntax used here:
\* literal characters, "." (any character) and "(" which, never being
\* closed, makes the pattern fail to compile.  The match is a search, not a
\* full match.
regexpCompiles(pattern) == \A i \in 1..Len(pattern) : pattern[i] # "("
regexpMatchAt(pattern, s, off) ==
  /\ off + Len(pattern) <= Len(s)
  /\ \A j \in 1..Len(pattern) : pattern[j] = "." \/ pattern[j] = s[off + j]
regexpMatchString(pattern, s) ==
  IF regexpCompiles(pattern)
  THEN [match |-> \E off \in 0..Len(s) : regexpMatchAt(pattern, s, off), err |-> NilErr]
  ELSE [match |-> FALSE, err |-> NewErr(<<"error parsing regexp">>)]

\* strings.ToUpper on the method spellings drawn by the model.
ToUpper(m) ==
  CASE m = "get" -> "GET"
    [] m = "Get" -> "GET"
    [] m = "post" -> "POST"
    [] OTHER -> m

\* api.Metrics.Add: create the entry or add to it.
MetricsAddOverwrite(metrics, name, value) ==
  [k \in DOMAIN metrics \cup {name} |-> IF k = name THEN value ELSE metrics[k]]

MetricsAdd(metrics, name, value) ==
  [k \in DOMAIN metrics \cup {name} |->
     IF k = name
     THEN (IF name \in DOMAIN metrics THEN metrics[name] + value ELSE value)
     ELSE metrics[k]]

EmptyMetrics == [k \in {} |-> 0]

\* One iteration of the loop of generateMetrics.
generateMetricsStep(metrics, pr, path, method) ==
  LET m == regexpMatchString(pr.Pattern, path)
  IN IF m.err.nil
     THEN IF m.match /\ ToUpper(pr.HTTPMethod) = ToUpper(method)
          THEN MetricsAdd(metrics, pr.MetricSystemName, pr.Delta)
          ELSE metrics
     ELSE metrics

RECURSIVE generateMetricsLoop(_, _, _, _)
generateMetricsLoop(rules, path, method, metrics) ==
  IF rules = <<>>
  THEN metrics
  ELSE generateMetricsLoop(Tail(rules), path, method,
                           generateMetricsStep(metrics, Head(rules), path, method))

generateMetrics(path, method, conf) ==
  generateMetricsLoop(conf.ProxyRules, path, method, EmptyMetrics)


\* ------------------------------------------------------------ isAuthorized
\* Value.GetStringValue of a subject property; a missing key reads as "".
GetStringValue(props, key) == IF key \in DOMAIN props THEN props[key] ELSE ""

\* The attribute the application identifier is read from (lines 164-169).
appIdentifierKeyGeneric(proxyConf) == AppIDAttributeKey

appIdentifierKey(proxyConf) ==
  IF proxyConf.BackendVersion = openIDTypeIdentifier
  THEN OIDCAttributeKey
  ELSE AppIDAttributeKey

\* appID, appKey and userKey as isAuthorized extracts them (lines 149-175).
credentials(request, proxyConf) ==
  IF ~request.Subject.nil
  THEN [appID |-> GetStringValue(request.Subject.Properties, appIdentifierKey(proxyConf)),
        appKey |-> GetStringValue(request.Subject.Properties, AppKeyAttributeKey),
        userKey |-> request.Subject.User]
  ELSE [appID |-> "", appKey |-> "", userKey |-> ""]

noMatchMessage(method, path) ==
  <<"no matching mapping rule for request with method ", method, " and path ">> \o path

\* backend.Request built at lines 187-201.
authRepRequest(svcID, proxyConf, m, creds) ==
  [Auth |-> [Type |-> proxyConf.BackendAuthenticationType,
             Value |-> proxyConf.BackendAuthenticationValue],
   ServiceID |-> svcID,
   Metrics |-> m,
   Params |-> [AppID |-> creds.appID, AppKey |-> creds.appKey, UserKey |-> creds.userKey]]

apiRespConverterUnavailable(resp, e) ==
  IF ~e.nil
  THEN rpcStatusErrorHandler("error calling 3scale backend", "WithUnavailable", e).status
  ELSE IF ~resp.Success
       THEN WithPermissionDenied(resp.Reason)
       ELSE StatusOK

apiRespConverterSuccessFirst(resp, e) ==
  IF resp.Success
  THEN StatusOK
  ELSE IF ~e.nil
       THEN rpcStatusErrorHandler("error calling 3scale backend", "WithUnknown", e).status
       ELSE WithPermissionDenied(resp.Reason)

apiRespConverter(resp, e) ==
  IF ~e.nil
  THEN rpcStatusErrorHandler("error calling 3scale backend", "WithUnknown", e).status
  ELSE IF ~resp.Success
       THEN WithPermissionDenied(resp.Reason)
       ELSE StatusOK

\* isAuthorized as a function of its arguments and of the outcome `out` of
\* the backend's AuthRep, should it be called: the status returned and the
\* backend requests issued.
isAuthorized(svcID, request, proxyConf, out) ==
  LET creds == credentials(request, proxyConf)
      m == generateMetrics(request.Action.Path, request.Action.Method, proxyConf)
  IN IF request.Action.Path = <<>>
     THEN [status |-> WithInvalidArgument(pathErr), calls |-> <<>>]
     ELSE IF creds.appID = "" /\ creds.userKey = ""
     THEN [status |-> WithPermissionDenied(unauthenticatedErr), calls |-> <<>>]
     ELSE IF DOMAIN m = {}
     THEN [status |-> WithPermissionDenied(noMatchMessage(request.Action.Method, request.Action.Path)),
           calls |-> <<>>]
     ELSE [status |-> apiRespConverter(out.resp, out.e),
           calls |-> <<authRepRequest(svcID, proxyConf, m, creds)>>]

\* ------------------------------------------------------------------ inputs
ServiceIdsConfigured == {"", "svc-cfg"}
ServiceIdsRequested == {"", "svc-req"}
BackendUrls == {"", "http://backend.internal"}
ParamsSet ==
  [ServiceId : ServiceIdsConfigured, SystemUrl : {"https://system"},
   AccessToken : {"SECRET"}, BackendUrl : BackendUrls]
ZeroParams == [ServiceId |-> "", SystemUrl |-> "", AccessToken |-> "", BackendUrl |-> ""]

\* r.AdapterConfig: nil, bytes that do not unmarshal, or encoded Params.
AdapterConfigs ==
  {[nil |-> TRUE, valid |-> FALSE, params |-> ZeroParams],
   [nil |-> FALSE, valid |-> FALSE, params |-> ZeroParams]}
  \cup {[nil |-> FALSE, valid |-> TRUE, params |-> p] : p \in ParamsSet}

Paths == {<<>>, <<"/", "a">>, <<"/", "b">>}
Methods == {"GET", "get", "POST"}

AttributeKeys == {AppIDAttributeKey, AppKeyAttributeKey, OIDCAttributeKey}
AttributeValues(k) ==
  CASE k = AppIDAttributeKey -> {"a1", "a2"}
    [] k = OIDCAttributeKey -> {"c1"}
    [] OTHER -> {"k1"}
PropertySets ==
  UNION {{f \in [D -> {"a1", "a2", "c1", "k1"}] : \A k \in D : f[k] \in AttributeValues(k)}
         : D \in SUBSET AttributeKeys}
NoSubject == [nil |-> TRUE, User |-> "", Properties |-> [k \in {} |-> ""]]
Subjects ==
  {NoSubject}
  \cup {[nil |-> FALSE, User |-> u, Properties |-> p] : u \in {"", "user-key"}, p \in PropertySets}

Instances ==
  [Action : [Service : ServiceIdsRequested, Path : Paths, Method : Methods],
   Subject : Subjects]
Requests == [AdapterConfig : AdapterConfigs, Instance : Instances]

\* Proxy configurations the 3scale system may hand out.
Rule(p, m, n, d) == [Pattern |-> p, HTTPMethod |-> m, MetricSystemName |-> n, Delta |-> d]
ProxyRuleLists ==
  {<<>>,
   <<Rule(<<"/", "a">>, "GET", "hits", 1)>>,
   <<Rule(<<"(">>, "GET", "hits", 1), Rule(<<"/">>, "get", "hits", 1),
     Rule(<<"/", ".">>, "GET", "hits", 2), Rule(<<"b">>, "POST", "posts", 1)>>}
ProxyConfs ==
  [BackendVersion : {openIDTypeIdentifier, "1"},
   BackendAuthenticationType : {"service_token"},
   BackendAuthenticationValue : {"BACKEND-TOKEN"},
   Endpoint : {"https://backend"},
   ProxyRules : ProxyRuleLists]
ZeroProxyConf ==
  [BackendVersion |-> "", BackendAuthenticationType |-> "",
   BackendAuthenticationValue |-> "", Endpoint |-> "", ProxyRules |-> <<>>]

\* Texts of the errors the collaborators may return.
ErrTexts == {<<"connection refused">>,
             <<"Get https://system/admin/api/services.json?access_token=", "SECRET", ": timeout">>}
Reasons == {<<"application key is missing">>, <<"usage limits are exceeded">>}
NoResp == [Success |-> FALSE, Reason |-> <<>>]
NoOutcome == [resp |-> NoResp, e |-> NilErr]
BackendOutcomes ==
  {[resp |-> [Success |-> TRUE, Reason |-> <<>>], e |-> NilErr]}
  \cup {[resp |-> [Success |-> FALSE, Reason |-> rsn], e |-> NilErr] : rsn \in Reasons}
  \cup {[resp |-> [Success |-> s, Reason |-> <<>>], e |-> NewErr(t)] : s \in BOOLEAN, t \in ErrTexts}


\* ------------------------------------------------------------------- state
VARIABLES
  systemCache,    \* s.conf.systemCache is set (TRUE) or nil (FALSE)
  reqNo,          \* number of requests received so far
  pc,             \* position of the handler
  r,              \* the HandleAuthorizationRequest being handled
  cfg,            \* *config.Params of HandleAuthorization
  proxyConf,      \* proxyConfElement.ProxyConfig
  backendURL,     \* backendURL of HandleAuthorization
  result,         \* v1beta1.CheckResult of HandleAuthorization
  err,            \* err of HandleAuthorization
  creds,          \* appID, appKey, userKey of isAuthorized
  metrics,        \* metrics of isAuthorized
  authRepOut,     \* what s.conf.backend.AuthRep returned
  authRepCalls,   \* backend requests issued for this request
  fetchCalls,     \* proxy configuration fetches issued for this request
  ret,            \* what HandleAuthorization returned
  fetchServiceId, \* cfg.ServiceId as passed to the proxy configuration fetch
  priorFailure,   \* how the request handled before this one failed, if it did
  gmPc, gmPath, gmMethod, gmConf, gmI, gmMetrics  \* a run of generateMetrics

handlerVars == <<fetchServiceId, priorFailure,
                 reqNo, pc, r, cfg, proxyConf, backendURL, result, err, creds,
                 metrics, authRepOut, authRepCalls, fetchCalls, ret>>
gmVars == <<gmPc, gmPath, gmMethod, gmConf, gmI, gmMetrics>>
vars == <<systemCache, handlerVars, gmVars>>

ZeroResult == [Status |-> StatusOK, ValidDuration |-> 0, ValidUseCount |-> 0]
ZeroCreds == [appID |-> "", appKey |-> "", userKey |-> ""]
ZeroRequest ==
  [AdapterConfig |-> [nil |-> TRUE, valid |-> FALSE, params |-> ZeroParams],
   Instance |-> [Action |-> [Service |-> "", Path |-> <<>>, Method |-> "GET"],
                 Subject |-> NoSubject]]
NoReturn == [returned |-> FALSE, result |-> ZeroResult, err |-> NilErr]

HandlerIdle ==
  /\ reqNo = 0
  /\ pc = "idle"
  /\ r = ZeroRequest
  /\ cfg = ZeroParams
  /\ proxyConf = ZeroProxyConf
  /\ backendURL = ""
  /\ result = ZeroResult
  /\ err = NilErr
  /\ creds = ZeroCreds
  /\ metrics = EmptyMetrics
  /\ authRepOut = NoOutcome
  /\ authRepCalls = <<>>
  /\ fetchCalls = 0
  /\ ret = NoReturn
  /\ fetchServiceId = ""
  /\ priorFailure = "none"

GMIdle ==
  /\ gmPc = "idle"
  /\ gmPath = <<>>
  /\ gmMethod = "GET"
  /\ gmConf = ZeroProxyConf
  /\ gmI = 1
  /\ gmMetrics = EmptyMetrics

\* NewThreescale / NewAdapterConfig: the server listens, with or without a
\* proxy configuration cache, and no request has arrived.
Init ==
  /\ systemCache \in BOOLEAN
  /\ HandlerIdle
  /\ GMIdle

\* ----------------------------------------------------- HandleAuthorization
\* A request arrives; the handler's locals take their zero values.
Receive ==
  /\ pc = "idle"
  /\ reqNo < MaxRequests
  /\ reqNo' = reqNo + 1
  /\ r' \in Requests
  /\ pc' = "parseConfigParams"
  /\ UNCHANGED <<systemCache, cfg, proxyConf, backendURL, result, err, creds, metrics,
                 authRepOut, authRepCalls, fetchCalls, ret, fetchServiceId,
                 priorFailure, gmVars>>

\* parseConfigParams: the parsed configuration, or an error.
parseConfigParams(req) ==
  IF req.AdapterConfig.nil
  THEN [cfg |-> ZeroParams, err |-> NewErr(<<"internal error - adapter config is not available">>)]
  ELSE IF ~req.AdapterConfig.valid
       THEN [cfg |-> ZeroParams, err |-> NewErr(<<"internal error - unable to unmarshal adapter config">>)]
       ELSE [cfg |-> req.AdapterConfig.params, err |-> NilErr]

ParseConfig ==
  /\ pc = "parseConfigParams"
  /\ LET p == parseConfigParams(r)
     IN IF ~p.err.nil
        THEN LET h == rpcStatusErrorHandler("", "WithInternal", p.err)
             IN /\ result' = [result EXCEPT !.Status = h.status]
                /\ err' = h.err
                /\ cfg' = p.cfg
                /\ pc' = "out"
        ELSE /\ cfg' = p.cfg
             /\ err' = p.err
             /\ pc' = "resolveServiceId"
             /\ UNCHANGED result
  /\ UNCHANGED <<systemCache, reqNo, r, proxyConf, backendURL, creds, metrics,
                 authRepOut, authRepCalls, fetchCalls, ret, fetchServiceId,
                 priorFailure, gmVars>>

\* Lines 68-75: the configured service id, else the one of the request.
ResolveServiceIdRequestFirst ==
  /\ pc = "resolveServiceId"
  /\ IF r.Instance.Action.Service = ""
     THEN IF cfg.ServiceId = ""
          THEN LET h == rpcStatusErrorHandler("error. No Service ID provided", "WithInvalidArgument", err)
               IN /\ result' = [result EXCEPT !.Status = h.status]
                  /\ err' = h.err
                  /\ pc' = "out"
                  /\ UNCHANGED cfg
          ELSE /\ pc' = "buildSystemClient"
               /\ UNCHANGED <<cfg, result, err>>
     ELSE /\ cfg' = [cfg EXCEPT !.ServiceId = r.Instance.Action.Service]
          /\ pc' = "buildSystemClient"
          /\ UNCHANGED <<result, err>>
  /\ UNCHANGED <<systemCache, reqNo, r, proxyConf, backendURL, creds, metrics,
                 authRepOut, authRepCalls, fetchCalls, ret, fetchServiceId,
                 priorFailure, gmVars>>

ResolveServiceIdNoGoto ==
  /\ pc = "resolveServiceId"
  /\ IF cfg.ServiceId = ""
     THEN IF r.Instance.Action.Service = ""
          THEN LET h == rpcStatusErrorHandler("error. No Service ID provided", "WithInvalidArgument", err)
               IN /\ result' = [result EXCEPT !.Status = h.status]
                  /\ err' = h.err
                  /\ pc' = "buildSystemClient"
                  /\ UNCHANGED cfg
          ELSE /\ cfg' = [cfg EXCEPT !.ServiceId = r.Instance.Action.Service]
               /\ pc' = "buildSystemClient"
               /\ UNCHANGED <<result, err>>
     ELSE /\ pc' = "buildSystemClient"
          /\ UNCHANGED <<cfg, result, err>>
  /\ UNCHANGED <<systemCache, reqNo, r, proxyConf, backendURL, creds, metrics,
                 authRepOut, authRepCalls, fetchCalls, ret, fetchServiceId,
                 priorFailure, gmVars>>

ResolveServiceId ==
  /\ pc = "resolveServiceId"
  /\ IF cfg.ServiceId = ""
     THEN IF r.Instance.Action.Service = ""
          THEN LET h == rpcStatusErrorHandler("error. No Service ID provided", "WithInvalidArgument", err)
               IN /\ result' = [result EXCEPT !.Status = h.status]
                  /\ err' = h.err
                  /\ pc' = "out"
                  /\ UNCHANGED cfg
          ELSE /\ cfg' = [cfg EXCEPT !.ServiceId = r.Instance.Action.Service]
               /\ pc' = "buildSystemClient"
               /\ UNCHANGED <<result, err>>
     ELSE /\ pc' = "buildSystemClient"
          /\ UNCHANGED <<cfg, result, err>>
  /\ UNCHANGED <<systemCache, reqNo, r, proxyConf, backendURL, creds, metrics,
                 authRepOut, authRepCalls, fetchCalls, ret, fetchServiceId,
                 priorFailure, gmVars>>

\* Lines 77-81: clientBuilder.BuildSystemClient succeeds or fails.
BuildSystemClient ==
  /\ pc = "buildSystemClient"
  /\ \/ /\ err' = NilErr
        /\ pc' = "extractProxyConf"
        /\ UNCHANGED result
     \/ \E t \in ErrTexts :
          LET h == rpcStatusErrorHandler("error building HTTP client for 3scale system",
                                         "WithInvalidArgument", NewErr(t))
          IN /\ result' = [result EXCEPT !.Status = h.status]
             /\ err' = h.err
             /\ pc' = "out"
  /\ UNCHANGED <<systemCache, reqNo, r, cfg, proxyConf, backendURL, creds, metrics,
                 authRepOut, authRepCalls, fetchCalls, ret, fetchServiceId,
                 priorFailure, gmVars>>

\* Lines 83-87 and extractProxyConf: one fetch, from the cache when there is
\* one and from the remote system otherwise; either may fail.
ExtractProxyConfAsInternal ==
  /\ pc = "extractProxyConf"
  /\ fetchCalls' = fetchCalls + 1
  /\ fetchServiceId' = cfg.ServiceId
  /\ \/ \E pce \in ProxyConfs :
          /\ proxyConf' = pce
          /\ err' = NilErr
          /\ pc' = "buildBackendClient"
          /\ UNCHANGED result
     \/ \E t \in ErrTexts :
          LET h == rpcStatusErrorHandler("currently unable to fetch required data from 3scale system",
                                         "WithInternal", NewErr(t))
          IN /\ result' = [result EXCEPT !.Status = h.status]
             /\ err' = h.err
             /\ pc' = "out"
             /\ UNCHANGED proxyConf
  /\ UNCHANGED <<systemCache, reqNo, r, cfg, backendURL, creds, metrics,
                 authRepOut, authRepCalls, ret, priorFailure, gmVars>>

ExtractProxyConf ==
  /\ pc = "extractProxyConf"
  /\ fetchCalls' = fetchCalls + 1
  /\ fetchServiceId' = cfg.ServiceId
  /\ \/ \E pce \in ProxyConfs :
          /\ proxyConf' = pce
          /\ err' = NilErr
          /\ pc' = "buildBackendClient"
          /\ UNCHANGED result
     \/ \E t \in ErrTexts :
          LET h == rpcStatusErrorHandler("currently unable to fetch required data from 3scale system",
                                         "WithUnavailable", NewErr(t))
          IN /\ result' = [result EXCEPT !.Status = h.status]
             /\ err' = h.err
             /\ pc' = "out"
             /\ UNCHANGED proxyConf
  /\ UNCHANGED <<systemCache, reqNo, r, cfg, backendURL, creds, metrics,
                 authRepOut, authRepCalls, ret, priorFailure, gmVars>>

\* Lines 89-98: the backend URL (override first) and the backend client.
BuildBackendClient ==
  /\ pc = "buildBackendClient"
  /\ backendURL' = IF cfg.BackendUrl = "" THEN proxyConf.Endpoint ELSE cfg.BackendUrl
  /\ \/ /\ err' = NilErr
        /\ pc' = "isAuthorized"
        /\ UNCHANGED result
     \/ \E t \in ErrTexts :
          LET h == rpcStatusErrorHandler("error creating 3scale backend client",
                                         "WithInvalidArgument", NewErr(t))
          IN /\ result' = [result EXCEPT !.Status = h.status]
             /\ err' = h.err
             /\ pc' = "out"
  /\ UNCHANGED <<systemCache, reqNo, r, cfg, proxyConf, creds, metrics,
                 authRepOut, authRepCalls, fetchCalls, ret, fetchServiceId,
                 priorFailure, gmVars>>


\* ------------------------------------------- isAuthorized, stage by stage
\* A status returned by isAuthorized is assigned to result.Status (line 100).
\* Lines 157-159: the request must have a path.
CheckPathCredentialsFirst ==
  /\ pc = "isAuthorized"
  /\ IF credentials(r.Instance, proxyConf).appID = "" /\ credentials(r.Instance, proxyConf).userKey = ""
     THEN /\ result' = [result EXCEPT !.Status = WithPermissionDenied(unauthenticatedErr)]
          /\ pc' = "disableCaching"
     ELSE IF r.Instance.Action.Path = <<>>
          THEN /\ result' = [result EXCEPT !.Status = WithInvalidArgument(pathErr)]
               /\ pc' = "disableCaching"
          ELSE /\ pc' = "credentials"
               /\ UNCHANGED result
  /\ UNCHANGED <<systemCache, reqNo, r, cfg, proxyConf, backendURL, err, creds, metrics,
                 authRepOut, authRepCalls, fetchCalls, ret, fetchServiceId,
                 priorFailure, gmVars>>

CheckPath ==
  /\ pc = "isAuthorized"
  /\ IF r.Instance.Action.Path = <<>>
     THEN /\ result' = [result EXCEPT !.Status = WithInvalidArgument(pathErr)]
          /\ pc' = "disableCaching"
     ELSE /\ pc' = "credentials"
          /\ UNCHANGED result
  /\ UNCHANGED <<systemCache, reqNo, r, cfg, proxyConf, backendURL, err, creds, metrics,
                 authRepOut, authRepCalls, fetchCalls, ret, fetchServiceId,
                 priorFailure, gmVars>>

\* Lines 161-179: extract the credentials; deny when none identifies the caller.
ExtractCredentialsAsInternal ==
  /\ pc = "credentials"
  /\ creds' = credentials(r.Instance, proxyConf)
  /\ IF creds'.appID = "" /\ creds'.userKey = ""
     THEN /\ result' = [result EXCEPT !.Status = WithInternal(unauthenticatedErr)]
          /\ pc' = "disableCaching"
     ELSE /\ pc' = "generateMetrics"
          /\ UNCHANGED result
  /\ UNCHANGED <<systemCache, reqNo, r, cfg, proxyConf, backendURL, err, metrics,
                 authRepOut, authRepCalls, fetchCalls, ret, fetchServiceId,
                 priorFailure, gmVars>>

ExtractCredentials ==
  /\ pc = "credentials"
  /\ creds' = credentials(r.Instance, proxyConf)
  /\ IF creds'.appID = "" /\ creds'.userKey = ""
     THEN /\ result' = [result EXCEPT !.Status = WithPermissionDenied(unauthenticatedErr)]
          /\ pc' = "disableCaching"
     ELSE /\ pc' = "generateMetrics"
          /\ UNCHANGED result
  /\ UNCHANGED <<systemCache, reqNo, r, cfg, proxyConf, backendURL, err, metrics,
                 authRepOut, authRepCalls, fetchCalls, ret, fetchServiceId,
                 priorFailure, gmVars>>

\* Lines 181-185: compute the metrics; deny when no mapping rule applies.
MatchRulesNoDenial ==
  /\ pc = "generateMetrics"
  /\ metrics' = generateMetrics(r.Instance.Action.Path, r.Instance.Action.Method, proxyConf)
  /\ pc' = "authRep"
  /\ UNCHANGED <<systemCache, reqNo, r, cfg, proxyConf, backendURL, result, err, creds,
                 authRepOut, authRepCalls, fetchCalls, ret, fetchServiceId,
                 priorFailure, gmVars>>

MatchRules ==
  /\ pc = "generateMetrics"
  /\ metrics' = generateMetrics(r.Instance.Action.Path, r.Instance.Action.Method, proxyConf)
  /\ IF DOMAIN metrics' = {}
     THEN /\ result' = [result EXCEPT !.Status =
                          WithPermissionDenied(noMatchMessage(r.Instance.Action.Method,
                                                              r.Instance.Action.Path))]
          /\ pc' = "disableCaching"
     ELSE /\ pc' = "authRep"
          /\ UNCHANGED result
  /\ UNCHANGED <<systemCache, reqNo, r, cfg, proxyConf, backendURL, err, creds,
                 authRepOut, authRepCalls, fetchCalls, ret, fetchServiceId,
                 priorFailure, gmVars>>

\* Lines 187-203: build the backend request and call AuthRep, which answers
\* with a verdict or fails.
CallAuthRep ==
  /\ pc = "authRep"
  /\ authRepCalls' = Append(authRepCalls, authRepRequest(cfg.ServiceId, proxyConf, metrics, creds))
  /\ authRepOut' \in BackendOutcomes
  /\ pc' = "apiRespConverter"
  /\ UNCHANGED <<systemCache, reqNo, r, cfg, proxyConf, backendURL, result, err, creds,
                 metrics, fetchCalls, ret, fetchServiceId,
                 priorFailure, gmVars>>

\* Lines 203-217 and 100: translate what AuthRep returned.
ConvertResponseReturningErr ==
  /\ pc = "apiRespConverter"
  /\ result' = [result EXCEPT !.Status = apiRespConverter(authRepOut.resp, authRepOut.e)]
  /\ err' = IF ~authRepOut.e.nil
            THEN rpcStatusErrorHandler("error calling 3scale backend", "WithUnknown", authRepOut.e).err
            ELSE err
  /\ pc' = "disableCaching"
  /\ UNCHANGED <<systemCache, reqNo, r, cfg, proxyConf, backendURL, creds, metrics,
                 authRepOut, authRepCalls, fetchCalls, ret, fetchServiceId,
                 priorFailure, gmVars>>

ConvertResponseRetrying ==
  /\ pc = "apiRespConverter"
  /\ IF ~authRepOut.e.nil /\ Len(authRepCalls) < 2
     THEN /\ pc' = "authRep"
          /\ UNCHANGED result
     ELSE /\ result' = [result EXCEPT !.Status = apiRespConverter(authRepOut.resp, authRepOut.e)]
          /\ pc' = "disableCaching"
  /\ UNCHANGED <<systemCache, reqNo, r, cfg, proxyConf, backendURL, err, creds, metrics,
                 authRepOut, authRepCalls, fetchCalls, ret, fetchServiceId,
                 priorFailure, gmVars>>

ConvertResponse ==
  /\ pc = "apiRespConverter"
  /\ result' = [result EXCEPT !.Status = apiRespConverter(authRepOut.resp, authRepOut.e)]
  /\ pc' = "disableCaching"
  /\ UNCHANGED <<systemCache, reqNo, r, cfg, proxyConf, backendURL, err, creds, metrics,
                 authRepOut, authRepCalls, fetchCalls, ret, fetchServiceId,
                 priorFailure, gmVars>>

\* Lines 102-110: caching of the decision is switched off.
DisableCachingZeroCount ==
  /\ pc = "disableCaching"
  /\ result' = [result EXCEPT !.ValidDuration = 0, !.ValidUseCount = 0]
  /\ pc' = "out"
  /\ UNCHANGED <<systemCache, reqNo, r, cfg, proxyConf, backendURL, err, creds, metrics,
                 authRepOut, authRepCalls, fetchCalls, ret, fetchServiceId,
                 priorFailure, gmVars>>

DisableCachingForAWhile ==
  /\ pc = "disableCaching"
  /\ result' = [result EXCEPT !.ValidDuration = 5, !.ValidUseCount = -1]
  /\ pc' = "out"
  /\ UNCHANGED <<systemCache, reqNo, r, cfg, proxyConf, backendURL, err, creds, metrics,
                 authRepOut, authRepCalls, fetchCalls, ret, fetchServiceId,
                 priorFailure, gmVars>>

DisableCaching ==
  /\ pc = "disableCaching"
  /\ result' = [result EXCEPT !.ValidDuration = 0, !.ValidUseCount = -1]
  /\ pc' = "out"
  /\ UNCHANGED <<systemCache, reqNo, r, cfg, proxyConf, backendURL, err, creds, metrics,
                 authRepOut, authRepCalls, fetchCalls, ret, fetchServiceId,
                 priorFailure, gmVars>>

\* Lines 111-112: return &result, err.
Return ==
  /\ pc = "out"
  /\ ret' = [returned |-> TRUE, result |-> result, err |-> err]
  /\ pc' = "done"
  /\ UNCHANGED <<systemCache, reqNo, r, cfg, proxyConf, backendURL, result, err, creds,
                 metrics, authRepOut, authRepCalls, fetchCalls, fetchServiceId,
                 priorFailure, gmVars>>

\* The response is delivered and the handler's goroutine ends: its locals are
\* gone and the server waits for the next request.
Complete ==
  /\ pc = "done"
  /\ pc' = "idle"
  /\ r' = ZeroRequest
  /\ cfg' = ZeroParams
  /\ proxyConf' = ZeroProxyConf
  /\ backendURL' = ""
  /\ result' = ZeroResult
  /\ err' = NilErr
  /\ creds' = ZeroCreds
  /\ metrics' = EmptyMetrics
  /\ authRepOut' = NoOutcome
  /\ authRepCalls' = <<>>
  /\ fetchCalls' = 0
  /\ ret' = NoReturn
  /\ fetchServiceId' = ""
  /\ priorFailure' = IF fetchCalls > 0 /\ proxyConf = ZeroProxyConf THEN "fetch"
                     ELSE IF authRepCalls # <<>> /\ ~authRepOut.e.nil THEN "backend"
                     ELSE "none"
  /\ UNCHANGED <<systemCache, reqNo, gmVars>>

Next ==
  \/ Receive
  \/ ParseConfig
  \/ ResolveServiceId
  \/ BuildSystemClient
  \/ ExtractProxyConf
  \/ BuildBackendClient
  \/ CheckPath
  \/ ExtractCredentials
  \/ MatchRules
  \/ CallAuthRep
  \/ ConvertResponse
  \/ DisableCaching
  \/ Return
  \/ Complete

Spec == Init /\ [][Next]_vars

TypeOK ==
  /\ pc \in {"idle", "parseConfigParams", "resolveServiceId", "buildSystemClient",
             "extractProxyConf", "buildBackendClient", "isAuthorized", "credentials",
             "generateMetrics", "authRep", "apiRespConverter", "disableCaching", "out", "done"}
  /\ reqNo \in 0..MaxRequests
  /\ r \in Requests \cup {ZeroRequest}


\* --------------------------------------------------- generateMetrics alone
\* A run of generateMetrics (lines 227-238) on a method, a path and a rule
\* list drawn from bounded sets, one rule per step.
GMPatterns == {<<"/", "a">>, <<".", "b">>, <<"(">>}
GMRuleMethods == {"GET", "post"}
MetricNames == {"hits", "posts"}
GMRules ==
  [Pattern : GMPatterns, HTTPMethod : GMRuleMethods,
   MetricSystemName : MetricNames, Delta : 0..MaxDelta]
GMRuleLists == UNION {[1..n -> GMRules] : n \in 0..MaxRules}

InitGM ==
  /\ systemCache = FALSE
  /\ HandlerIdle
  /\ gmPc = "loop"
  /\ gmPath \in Paths
  /\ gmMethod \in Methods
  /\ \E rules \in GMRuleLists : gmConf = [ZeroProxyConf EXCEPT !.ProxyRules = rules]
  /\ gmI = 1
  /\ gmMetrics = EmptyMetrics

\* Lines 230-236: the loop body, applied to the next rule.
GMRule ==
  /\ gmPc = "loop"
  /\ gmI <= Len(gmConf.ProxyRules)
  /\ gmMetrics' = generateMetricsStep(gmMetrics, gmConf.ProxyRules[gmI], gmPath, gmMethod)
  /\ gmI' = gmI + 1
  /\ UNCHANGED <<systemCache, handlerVars, gmPc, gmPath, gmMethod, gmConf>>

\* Line 237: return metrics.
GMReturn ==
  /\ gmPc = "loop"
  /\ gmI > Len(gmConf.ProxyRules)
  /\ gmPc' = "done"
  /\ UNCHANGED <<systemCache, handlerVars, gmPath, gmMethod, gmConf, gmI, gmMetrics>>

NextGM == GMRule \/ GMReturn

SpecGM == InitGM /\ [][NextGM]_vars


\* ------------------------------------------------------------- properties
\* The handler returned without an error detected before isAuthorized ran,
\* that is: the configuration resolved and isAuthorized produced the status.
Evaluated == ret.returned /\ ret.err.nil

\* C1: whenever HandleAuthorization returns status OK, the returned
\* CheckResult has ValidDuration zero and ValidUseCount -1.
C1_OkNeverCached ==
  (ret.returned /\ ret.result.Status.Code = "OK")
    => (ret.result.ValidDuration = 0 /\ ret.result.ValidUseCount = -1)

C1_Witness ==
  /\ ret.returned
  /\ ret.result.Status.Code = "OK"
  /\ Len(authRepCalls) = 1
  /\ ret.result.ValidUseCount = -1

\* C2 as stated: every returned result, whatever its status and whichever
\* stage produced it, has ValidDuration zero and ValidUseCount negative.
C2_AllResultsDisableCaching ==
  ret.returned => (ret.result.ValidDuration = 0 /\ ret.result.ValidUseCount < 0)

\* C2 amended: a result whose status isAuthorized produced (returned with a
\* nil error) has ValidDuration zero and ValidUseCount -1; a result of a
\* failure before isAuthorized (returned with a non-nil error and a non-OK
\* status) has ValidDuration zero and ValidUseCount zero.
C2_HintsByStage ==
  ret.returned =>
    /\ ret.result.ValidDuration = 0
    /\ ret.err.nil => ret.result.ValidUseCount = -1
    /\ ~ret.err.nil => (ret.result.ValidUseCount = 0 /\ ret.result.Status.Code # "OK")

C2_Witness ==
  /\ ret.returned
  /\ ~ret.err.nil
  /\ ret.result.Status.Code = "UNAVAILABLE"
  /\ ret.result.ValidUseCount = 0

\* Subject property maps that differ from props at most in the generic
\* app_id attribute (present with any value, or absent).
AppIDVariants(props) ==
  {p \in PropertySets :
     \A k \in AttributeKeys \ {AppIDAttributeKey} :
       /\ (k \in DOMAIN p) = (k \in DOMAIN props)
       /\ k \in DOMAIN p => p[k] = props[k]}

\* The outcomes AuthRep may have had in a run: the one it had when it was
\* called, any when it was not.
OutcomesOfRun == IF authRepCalls = <<>> THEN BackendOutcomes ELSE {authRepOut}

\* C3: under the OIDC pattern the application identifier checked and sent
\* to the backend is the client_id attribute; a request differing only in
\* the generic app_id attribute gets the same backend request and the same
\* status; a request with only a generic app_id is denied without a call.
C3_OIDCPrecedence ==
  (Evaluated /\ proxyConf.BackendVersion = openIDTypeIdentifier /\ ~r.Instance.Subject.nil) =>
    LET subject == r.Instance.Subject
        props == subject.Properties
    IN /\ \A i \in 1..Len(authRepCalls) :
            authRepCalls[i].Params.AppID = GetStringValue(props, OIDCAttributeKey)
       /\ \A p \in AppIDVariants(props) : \A out \in OutcomesOfRun :
            isAuthorized(cfg.ServiceId,
                         [r.Instance EXCEPT !.Subject.Properties = p],
                         proxyConf, out)
              = [status |-> ret.result.Status, calls |-> authRepCalls]
       /\ (OIDCAttributeKey \notin DOMAIN props /\ subject.User = "") =>
            /\ ret.result.Status.Code # "OK"
            /\ authRepCalls = <<>>
            /\ r.Instance.Action.Path # <<>> =>
                 ret.result.Status = WithPermissionDenied(unauthenticatedErr)

C3_Witness ==
  /\ Evaluated
  /\ proxyConf.BackendVersion = openIDTypeIdentifier
  /\ ~r.Instance.Subject.nil
  /\ GetStringValue(r.Instance.Subject.Properties, AppIDAttributeKey) = "a1"
  /\ GetStringValue(r.Instance.Subject.Properties, OIDCAttributeKey) = "c1"
  /\ Len(authRepCalls) = 1
  /\ authRepCalls[1].Params.AppID = "c1"
  /\ ret.result.Status.Code = "OK"

\* The request names no application (under the configured pattern) and no
\* user key, or has no subject at all.
NoCredentials ==
  \/ r.Instance.Subject.nil
  \/ /\ r.Instance.Subject.User = ""
     /\ GetStringValue(r.Instance.Subject.Properties,
                       IF proxyConf.BackendVersion = openIDTypeIdentifier
                       THEN OIDCAttributeKey ELSE AppIDAttributeKey) = ""

\* C4: with the configuration resolved and a non-empty path, a request
\* without application identifier and user key gets PermissionDenied with
\* the missing-credentials message, and the backend is not called.
C4_MissingCredentialsDenied ==
  (Evaluated /\ r.Instance.Action.Path # <<>> /\ NoCredentials) =>
    /\ ret.result.Status = WithPermissionDenied(unauthenticatedErr)
    /\ authRepCalls = <<>>

C4_Witness ==
  /\ Evaluated
  /\ r.Instance.Action.Path # <<>>
  /\ r.Instance.Subject.nil
  /\ ret.result.Status.Code = "PERMISSION_DENIED"
  /\ ret.result.Status.Message = unauthenticatedErr

\* sub occurs in msg as a contiguous run of fragments.
Contains(msg, sub) ==
  \E i \in 0..(Len(msg) - Len(sub)) : SubSeq(msg, i + 1, i + Len(sub)) = sub

\* C5: a credentialed request for which the computed metric map is empty
\* gets PermissionDenied with a reason containing its method and its path,
\* and no AuthRep call is made.
C5_NoMatchDenied ==
  (/\ Evaluated
   /\ r.Instance.Action.Path # <<>>
   /\ ~NoCredentials
   /\ DOMAIN generateMetrics(r.Instance.Action.Path, r.Instance.Action.Method, proxyConf) = {}) =>
    /\ ret.result.Status.Code = "PERMISSION_DENIED"
    /\ Contains(ret.result.Status.Message, <<r.Instance.Action.Method>>)
    /\ Contains(ret.result.Status.Message, r.Instance.Action.Path)
    /\ authRepCalls = <<>>

C5_Witness ==
  /\ Evaluated
  /\ r.Instance.Action.Path = <<"/", "a">>
  /\ r.Instance.Action.Method = "POST"
  /\ ~NoCredentials
  /\ Len(proxyConf.ProxyRules) = 1
  /\ ret.result.Status.Code = "PERMISSION_DENIED"
  /\ authRepCalls = <<>>


\* Spellings of one method, whatever the case of their letters.
CaseClasses == {{"GET", "get", "Get"}, {"POST", "post"}}
EqualIgnoringCase(a, b) == a = b \/ \E c \in CaseClasses : a \in c /\ b \in c

\* The rule's pattern is well-formed and matches the path, and its method
\* is the request's, ignoring case.
Qualifies(pr, path, method) ==
  /\ regexpCompiles(pr.Pattern)
  /\ \E off \in 0..Len(path) : regexpMatchAt(pr.Pattern, path, off)
  /\ EqualIgnoringCase(pr.HTTPMethod, method)

RECURSIVE SumOfDeltas(_, _, _, _)
SumOfDeltas(rules, name, path, method) ==
  IF rules = <<>>
  THEN 0
  ELSE (IF Head(rules).MetricSystemName = name /\ Qualifies(Head(rules), path, method)
        THEN Head(rules).Delta ELSE 0)
       + SumOfDeltas(Tail(rules), name, path, method)

WellFormedRule(pr) == regexpCompiles(pr.Pattern)

\* C6: generateMetrics binds each metric name to the sum of the deltas of
\* the qualifying rules for it, leaves out the metrics without a qualifying
\* rule, and returns what it returns for the list without its malformed
\* rules.
C6_MetricsAreSums ==
  gmPc = "done" =>
    LET rules == gmConf.ProxyRules
    IN /\ DOMAIN gmMetrics =
            {pr.MetricSystemName : pr \in {rules[i] : i \in {j \in 1..Len(rules) :
                                             Qualifies(rules[j], gmPath, gmMethod)}}}
       /\ \A name \in DOMAIN gmMetrics :
            gmMetrics[name] = SumOfDeltas(rules, name, gmPath, gmMethod)
       /\ gmMetrics = generateMetrics(gmPath, gmMethod,
                        [gmConf EXCEPT !.ProxyRules = SelectSeq(rules, WellFormedRule)])

C6_Witness ==
  /\ gmPc = "done"
  /\ Len(gmConf.ProxyRules) = 2
  /\ ~WellFormedRule(gmConf.ProxyRules[1])
  /\ Qualifies(gmConf.ProxyRules[2], gmPath, gmMethod)
  /\ gmConf.ProxyRules[2].HTTPMethod # gmMethod
  /\ gmMetrics = [k \in {"hits"} |-> 2]

\* C7: a failure before isAuthorized has the status of the first failing
\* stage: Internal when the adapter configuration is absent or does not
\* unmarshal, InvalidArgument when the service id is empty in configuration
\* and request, Unavailable when the proxy configuration fetch fails.
C7_EarlyFailureCodes ==
  ret.returned =>
    /\ (r.AdapterConfig.nil \/ ~r.AdapterConfig.valid) =>
         ret.result.Status.Code = "INTERNAL"
    /\ (/\ ~r.AdapterConfig.nil
        /\ r.AdapterConfig.valid
        /\ r.AdapterConfig.params.ServiceId = ""
        /\ r.Instance.Action.Service = "") =>
         ret.result.Status.Code = "INVALID_ARGUMENT"
    /\ (fetchCalls = 1 /\ proxyConf = ZeroProxyConf) =>
         ret.result.Status.Code = "UNAVAILABLE"

C7_Witness ==
  /\ ret.returned
  /\ fetchCalls = 1
  /\ proxyConf = ZeroProxyConf
  /\ ret.result.Status.Code = "UNAVAILABLE"
  /\ ~ret.err.nil

\* C8: once the configuration resolved, a request with an empty path gets
\* InvalidArgument with the missing-path message whatever its credentials,
\* and the backend is not called.
C8_EmptyPathInvalidArgument ==
  (Evaluated /\ r.Instance.Action.Path = <<>>) =>
    /\ ret.result.Status = WithInvalidArgument(pathErr)
    /\ authRepCalls = <<>>

C8_Witness ==
  /\ Evaluated
  /\ r.Instance.Action.Path = <<>>
  /\ NoCredentials
  /\ ret.result.Status.Code = "INVALID_ARGUMENT"

\* C9: what AuthRep returned is translated with the error tested first:
\* an error gives Unknown, no error and success=false gives PermissionDenied
\* with exactly the backend's reason, no error and success=true gives OK.
C9_ResponseTranslation ==
  (authRepCalls # <<>> /\ pc \in {"disableCaching", "out", "done"}) =>
    /\ ~authRepOut.e.nil => result.Status.Code = "UNKNOWN"
    /\ (authRepOut.e.nil /\ ~authRepOut.resp.Success) =>
         result.Status = WithPermissionDenied(authRepOut.resp.Reason)
    /\ (authRepOut.e.nil /\ authRepOut.resp.Success) => result.Status = StatusOK

C9_Witness ==
  /\ pc = "disableCaching"
  /\ authRepCalls # <<>>
  /\ ~authRepOut.e.nil
  /\ authRepOut.resp.Success
  /\ result.Status.Code = "UNKNOWN"

\* C10 as stated: when the AuthRep call returns an error, the returned
\* result is classified as Unavailable.
C10_BackendErrorUnavailable ==
  (ret.returned /\ authRepCalls # <<>> /\ ~authRepOut.e.nil) =>
    ret.result.Status.Code = "UNAVAILABLE"

\* C10 amended: when the AuthRep call returns an error, the returned result
\* is classified as Unknown.
C10_BackendErrorUnknown ==
  (ret.returned /\ authRepCalls # <<>> /\ ~authRepOut.e.nil) =>
    ret.result.Status.Code = "UNKNOWN"

C10_Witness ==
  /\ ret.returned
  /\ authRepCalls # <<>>
  /\ ~authRepOut.e.nil
  /\ ret.result.Status.Code = "UNKNOWN"


\* In this request the proxy configuration fetch failed / AuthRep failed.
FetchFailed == fetchCalls > 0 /\ proxyConf = ZeroProxyConf
BackendFailed == authRepCalls # <<>> /\ ~authRepOut.e.nil

\* Configuration, credentials and rule matching all succeeded.
AllStagesSucceeded ==
  /\ Evaluated
  /\ r.Instance.Action.Path # <<>>
  /\ ~NoCredentials
  /\ DOMAIN generateMetrics(r.Instance.Action.Path, r.Instance.Action.Method, proxyConf) # {}

\* C11: one HandleAuthorization issues at most one fetch and at most one
\* AuthRep call, exactly one call when configuration, credentials and rule
\* matching succeed; a failed fetch or call is not repeated in the request;
\* a request after a failed one does its own fetch and its own call.
C11_OneCallPerRequest ==
  /\ fetchCalls <= 1
  /\ Len(authRepCalls) <= 1
  /\ ret.returned =>
       /\ AllStagesSucceeded => Len(authRepCalls) = 1
       /\ FetchFailed => (fetchCalls = 1 /\ authRepCalls = <<>>)
       /\ BackendFailed => (fetchCalls = 1 /\ Len(authRepCalls) = 1)
       /\ (priorFailure # "none" /\ Evaluated) => fetchCalls = 1
       /\ (priorFailure # "none" /\ FetchFailed) => fetchCalls = 1

C11_Witness ==
  /\ reqNo = 2
  /\ priorFailure = "backend"
  /\ ret.returned
  /\ AllStagesSucceeded
  /\ fetchCalls = 1
  /\ Len(authRepCalls) = 1
  /\ ret.result.Status.Code = "OK"


\* Values that must stay inside the adapter: the access token of the fetch
\* URL and the backend authentication value.
SecretFragments ==
  {r.AdapterConfig.params.AccessToken, proxyConf.BackendAuthenticationValue} \ {""}

\* C12: the message of a returned failure status contains neither the
\* access token of the fetch URL nor the backend authentication value, and
\* does not depend on the text of the underlying error: no text a
\* collaborator's error may have occurs in it.
C12_NoLeakInMessage ==
  (ret.returned /\ ret.result.Status.Code # "OK") =>
    /\ \A secret \in SecretFragments : ~Contains(ret.result.Status.Message, <<secret>>)
    /\ \A t \in ErrTexts : ~Contains(ret.result.Status.Message, t)


\* The steps of a handler that has received its request.
Handle ==
  \/ ParseConfig
  \/ ResolveServiceId
  \/ BuildSystemClient
  \/ ExtractProxyConf
  \/ BuildBackendClient
  \/ CheckPath
  \/ ExtractCredentials
  \/ MatchRules
  \/ CallAuthRep
  \/ ConvertResponse
  \/ DisableCaching
  \/ Return
  \/ Complete

\* The handler's goroutine keeps being scheduled and every call it makes
\* returns, so a step that stays possible is eventually taken.
SpecLive == Init /\ [][Next]_vars /\ WF_vars(Handle)

\* Position of a stage in the pipeline.
StageRank(p) ==
  CASE p = "idle" -> 0
    [] p = "parseConfigParams" -> 1
    [] p = "resolveServiceId" -> 2
    [] p = "buildSystemClient" -> 3
    [] p = "extractProxyConf" -> 4
    [] p = "buildBackendClient" -> 5
    [] p = "isAuthorized" -> 6
    [] p = "credentials" -> 7
    [] p = "generateMetrics" -> 8
    [] p = "authRep" -> 9
    [] p = "apiRespConverter" -> 10
    [] p = "disableCaching" -> 11
    [] p = "out" -> 12
    [] p = "done" -> 13

ParseFailed == r.AdapterConfig.nil \/ ~r.AdapterConfig.valid
ServiceIdMissing ==
  ~ParseFailed /\ r.AdapterConfig.params.ServiceId = "" /\ r.Instance.Action.Service = ""

\* C13: the stages of a request run in the pipeline's order and never go
\* back; after a parse or service id failure no fetch is made and after any
\* failure no backend call; a result is returned once per request; every
\* request received is answered.
C13_ForwardOnlyPipeline ==
  /\ [][pc' # "idle" => StageRank(pc') > StageRank(pc)]_vars
  /\ [][(ParseFailed \/ ServiceIdMissing \/ (pc = "out" /\ fetchCalls = 0))
          => (pc' # "idle" => fetchCalls' = 0)]_vars
  /\ [][(pc \in {"out", "disableCaching"} /\ pc' # "idle") => authRepCalls' = authRepCalls]_vars
  /\ [](ret.returned => (authRepCalls # <<>> => AllStagesSucceeded))
  /\ [][ret.returned => (ret' = ret \/ pc' = "idle")]_vars
  /\ [][(ret' # ret /\ pc' # "idle") => (pc = "out" /\ pc' = "done" /\ ret'.returned)]_vars
  /\ (pc = "parseConfigParams") ~> (pc = "done" /\ ret.returned)

C13_Witness ==
  /\ pc = "done"
  /\ ret.returned
  /\ ParseFailed
  /\ fetchCalls = 0
  /\ authRepCalls = <<>>
  /\ ret.result.Status.Code = "INTERNAL"


\* The service id of the adapter configuration when it has one, else the
\* one of the request's action.
ResolvedServiceId ==
  IF r.AdapterConfig.params.ServiceId # ""
  THEN r.AdapterConfig.params.ServiceId
  ELSE r.Instance.Action.Service

\* C14: the proxy configuration lookup and the backend call both use the
\* configured service id when it is not empty and the request's action
\* service only otherwise.
C14_ServiceIdResolution ==
  (~ParseFailed /\ pc # "idle") =>
    /\ fetchCalls > 0 => (fetchServiceId = ResolvedServiceId /\ fetchServiceId # "")
    /\ \A i \in 1..Len(authRepCalls) :
         /\ authRepCalls[i].ServiceID = ResolvedServiceId
         /\ authRepCalls[i].ServiceID = fetchServiceId

C14_Witness ==
  /\ ret.returned
  /\ r.AdapterConfig.params.ServiceId = "svc-cfg"
  /\ r.Instance.Action.Service = "svc-req"
  /\ fetchServiceId = "svc-cfg"
  /\ Len(authRepCalls) = 1
  /\ authRepCalls[1].ServiceID = "svc-cfg"


\* The stages before isAuthorized and the status code of a failure in each.
EarlyStages ==
  {"parseConfigParams", "resolveServiceId", "buildSystemClient",
   "extractProxyConf", "buildBackendClient"}
EarlyFailureCode(p) ==
  CASE p = "parseConfigParams" -> "INTERNAL"
    [] p = "extractProxyConf" -> "UNAVAILABLE"
    [] OTHER -> "INVALID_ARGUMENT"

\* C15: the handler reaches its return with a non-nil error, and a result
\* with the failing stage's non-OK status and the error's text, exactly
\* when a stage before isAuthorized failed; every outcome of isAuthorized
\* (OK, InvalidArgument, PermissionDenied, Unknown after a backend error)
\* reaches it with a nil error; the return hands out that result and error.
C15_ErrorOnlyForEarlyFailure ==
  [][
      /\ (pc' = "out" /\ pc \in EarlyStages) =>
          /\ ~err'.nil
          /\ result'.Status.Code = EarlyFailureCode(pc)
          /\ result'.Status.Message = err'.text
      /\ (pc \in EarlyStages /\ pc' # "out") => err'.nil
      /\ (pc' = "out" /\ pc \notin EarlyStages) =>
          /\ pc = "disableCaching"
          /\ err'.nil
          /\ result'.Status.Code \in {"OK", "INVALID_ARGUMENT", "PERMISSION_DENIED", "UNKNOWN"}
          /\ BackendFailed => result'.Status.Code = "UNKNOWN"
          /\ (r.Instance.Action.Path = <<>>) = (result'.Status.Code = "INVALID_ARGUMENT")
      /\ (pc = "out" /\ pc' = "done") =>
          ret' = [returned |-> TRUE, result |-> result, err |-> err]
    ]_vars

C15_Witness ==
  /\ ret.returned
  /\ ServiceIdMissing
  /\ ~ret.err.nil
  /\ ret.result.Status.Code = "INVALID_ARGUMENT"
  /\ ret.result.Status.Message = ret.err.text

====
